---- MODULE Spec2Model ----
(***************************************************************************)
(* A model of the jewelry-catalog admin code:                              *)
(*   - AdminCategoriesTab (src/src/components/admin/AdminCategoriesTab.tsx)*)
(*     the category form, the delete guard, the list reloads and the       *)
(*     two-tier rendering, against a backend table of categories;          *)
(*   - useGoldPrice (src/unnamed/part_000), the price poller;              *)
(*   - the row-level-security migration                                    *)
(*     (src/supabase/migrations/20251030193458_fix_duplicate_policy_error  *)
(*     .sql), statement by statement.                                      *)
(* Each part has its own specification (SpecCat, SpecRender, SpecGold,     *)
(* SpecMig); the variables of the other parts stay at their initial value. *)
(***************************************************************************)
EXTENDS Integers, Sequences, FiniteSets, Bags, TLC

VARIABLES
    \* ---- AdminCategoriesTab ----
    db,                  \* the backend's categories table: a set of rows
    dbVer,               \* number of mutations the backend has applied
    categories,          \* useState<Category[]>: the in-memory list
    listVer,             \* dbVer of the snapshot held in `categories`
    maxVer,              \* highest dbVer of any snapshot applied so far
    showAddCategoryForm, \* useState(false)
    editingCategory,     \* useState<Category|null>: <<>> or <<category>>
    categoryFormData,    \* useState({name, description, image_url, parent_id})
    expandedCategories,  \* useState<Set<string>>
    items,               \* props.items: the category tag of each JewelryItem
    dialog,              \* the alert()/confirm() the latest step raised, if any
    tasks,               \* bag of handler invocations awaiting the backend
    nEvents,             \* user events (clicks, changes, submissions) so far
    \* ---- useGoldPrice ----
    goldPrice,           \* useState(5450)
    loading,             \* useState(true)
    error,               \* useState<string|null>(null)
    mounted,             \* the effect's `let mounted`
    interval,            \* the setInterval timer is armed
    fetching,            \* calls of getCurrentGoldPrice not yet settled
    lastFetched,         \* the price the latest fulfilled call returned (5450 if none)
    outcome,             \* how the latest settled call ended
    \* ---- migration ----
    policies,            \* pg_policy: a set of policy rows
    rls,                 \* table -> row level security enabled
    pc,                  \* index of the next statement of the script
    sqlError,            \* the error that aborted the script, "" if none
    reruns               \* times the script was started again after finishing

catVars  == <<db, dbVer, categories, listVer, maxVer, showAddCategoryForm,
              editingCategory, categoryFormData, expandedCategories, items,
              dialog, tasks, nEvents>>
goldVars == <<goldPrice, loading, error, mounted, interval, fetching, lastFetched,
              outcome>>
migVars  == <<policies, rls, pc, sqlError, reruns>>
vars     == <<catVars, goldVars, migVars>>

-----------------------------------------------------------------------------
(* Bounds of the model *)

MaxEvents   == 4   \* clicks, field changes and submissions the user makes
MaxInFlight == 2   \* handler invocations awaiting the backend at once
MaxListLen  == 3   \* length of the flat lists the rendering is checked on

-----------------------------------------------------------------------------
(* Values *)

SeedPrice == 5450    \* useState(5450)
Tables == {"categories", "jewelry_items", "admin_settings"}

NULL == "NULL"       \* JavaScript null / SQL NULL
\* The ids of the rows the table starts with, and those the backend hands out
\* to inserted rows (one per insert at most)
IdNames == <<"c1", "c2", "c3", "c4", "c5", "c6", "c7", "c8">>
SeedIds == {"c1", "c2"}
Ids == {IdNames[i] : i \in 1..Len(IdNames)}

\* Names in `.order('name')` order
NameOrder == <<"Bangles", "Rings">>
Rank(n) == CHOOSE i \in 1..Len(NameOrder) : NameOrder[i] = n
\* What the user types into the form's text fields
TypedNames == {"Rings"}
TypedDescriptions == {"heavy"}
TypedImageUrls == {"a.jpg"}

\* props.items, by category tag
ItemLists == {<<"Rings", "Rings">>, <<"Bangles", "Bangles">>}

Category(id, name, description, image_url, parent_id) ==
    [id |-> id, name |-> name, description |-> description,
     image_url |-> image_url, parent_id |-> parent_id]

EmptyForm == [name |-> "", description |-> "", image_url |-> "", parent_id |-> ""]

NoDialog == [kind |-> "none", name |-> "", count |-> 0, answer |-> FALSE]
Alert(kind, name, count) == [kind |-> kind, name |-> name, count |-> count, answer |-> FALSE]
Confirm(name, answer) == [kind |-> "confirm", name |-> name, count |-> 0, answer |-> answer]

NoOp == [type |-> "none", id |-> NULL, data |-> EmptyForm]
Task(kind, stage, op, data, ver) ==
    [kind |-> kind, stage |-> stage, op |-> op, data |-> data, ver |-> ver]

Range(s) == {s[i] : i \in 1..Len(s)}

\* Array.prototype.filter is SelectSeq

-----------------------------------------------------------------------------
(* AdminCategoriesTab: derived values *)

\* value || ''
OrEmpty(v) == IF v = NULL THEN "" ELSE v

\* value || null
OrNull(v) == IF v = "" THEN NULL ELSE v

\* !cat.parent_id
Falsy(v) == v = NULL \/ v = ""

topLevelCategories(cats) == SelectSeq(cats, LAMBDA cat : Falsy(cat.parent_id))

\* Mutant of getSubcategories: the matches come out in reverse
getSubcategoriesReversed(cats, parentId) ==
    LET subs == SelectSeq(cats, LAMBDA cat : cat.parent_id = parentId)
    IN  [i \in 1..Len(subs) |-> subs[Len(subs) + 1 - i]]

getSubcategories(cats, parentId) == SelectSeq(cats, LAMBDA cat : cat.parent_id = parentId)

getItemCount(its, categoryName) == Len(SelectSeq(its, LAMBDA item : item = categoryName))

\* The cards on screen, in document order: each top-level category, and under an
\* expanded card that has subcategories, the cards of its subcategories.
\* `under` is the id of the card a card is nested in (NULL at the top level).
RECURSIVE CategoryCard(_, _, _, _)
RECURSIVE CardList(_, _, _, _)
CategoryCard(category, under, cats, expanded) ==
    LET subcategories == getSubcategories(cats, category.id)
        hasSubcategories == Len(subcategories) > 0
        isExpanded == category.id \in expanded
    IN  <<[category |-> category, under |-> under]>>
        \o (IF hasSubcategories /\ isExpanded
            THEN CardList(subcategories, category.id, cats, expanded)
            ELSE <<>>)
CardList(list, under, cats, expanded) ==
    IF list = <<>> THEN <<>>
    ELSE CategoryCard(Head(list), under, cats, expanded)
         \o CardList(Tail(list), under, cats, expanded)

Render(cats, expanded) == CardList(topLevelCategories(cats), NULL, cats, expanded)

Cards == Range(Render(categories, expandedCategories))

\* .select('*').order('name'): the rows in name order, ties in any order
OrderedByName(rows) ==
    LET n == Cardinality(rows)
    IN  {s \in [1..n -> rows] :
            /\ \A i, j \in 1..n : i # j => s[i] # s[j]
            /\ \A i, j \in 1..n : i < j => Rank(s[i].name) <= Rank(s[j].name)}

-----------------------------------------------------------------------------
(* AdminCategoriesTab: initial state (mounted, the effect's load in flight) *)

\* The table as earlier sessions left it: empty, or a category with a subcategory
SeedTables ==
    {{}, {Category("c1", "Rings", "", "", NULL), Category("c2", "Bangles", "", "", "c1")}}

InitCat ==
    /\ db \in SeedTables
    /\ dbVer = 0
    /\ categories = <<>>
    /\ listVer = 0
    /\ maxVer = 0
    /\ showAddCategoryForm = FALSE
    /\ editingCategory = <<>>
    /\ categoryFormData = EmptyForm
    /\ expandedCategories = {}
    /\ items \in ItemLists
    /\ dialog = NoDialog
    /\ tasks = SetToBag({Task("mount", "select", NoOp, <<>>, 0)})
    /\ nEvents = 0
    \* the poller and the migration are not running
    /\ goldPrice = SeedPrice /\ loading = TRUE /\ error = NULL /\ mounted = FALSE
    /\ interval = FALSE /\ fetching = 0 /\ lastFetched = SeedPrice /\ outcome = "none"
    /\ policies = {} /\ rls = [t \in Tables |-> FALSE] /\ pc = 1 /\ sqlError = ""
    /\ reruns = 0

-----------------------------------------------------------------------------
(* AdminCategoriesTab: the form *)

backendVars == <<db, dbVer>>
listVars    == <<categories, listVer, maxVer>>
formVars    == <<showAddCategoryForm, editingCategory, categoryFormData>>

InFlight == BagCardinality(tasks)

\* The step raised no alert() or confirm()
Quiet == dialog' = NoDialog

\* The step is one more thing the user does
UserEvent ==
    /\ nEvents < MaxEvents
    /\ nEvents' = nEvents + 1

resetCategoryForm ==
    /\ categoryFormData' = EmptyForm
    /\ showAddCategoryForm' = FALSE
    /\ editingCategory' = <<>>

\* onClick of "Add Category"
ShowAddForm ==
    /\ UserEvent
    /\ showAddCategoryForm' = TRUE
    /\ Quiet
    /\ UNCHANGED <<goldVars, migVars, backendVars, listVars, editingCategory, categoryFormData,
                   expandedCategories, items, tasks>>

\* onClick of X / Cancel (the form is shown)
CancelForm ==
    /\ UserEvent
    /\ showAddCategoryForm
    /\ resetCategoryForm
    /\ Quiet
    /\ UNCHANGED <<goldVars, migVars, backendVars, listVars, expandedCategories, items, tasks>>

startEditCategory(category) ==
    /\ editingCategory' = <<category>>
    /\ categoryFormData' = [name |-> category.name,
                            description |-> OrEmpty(category.description),
                            image_url |-> OrEmpty(category.image_url),
                            parent_id |-> OrEmpty(category.parent_id)]
    /\ showAddCategoryForm' = TRUE

\* onClick of a card's edit button
StartEdit ==
    \E card \in Cards :
        /\ UserEvent
        /\ startEditCategory(card.category)
        /\ Quiet
        /\ UNCHANGED <<goldVars, migVars, backendVars, listVars, expandedCategories, items, tasks>>

\* The options of the parent <select>
ParentOptions(cats) == {""} \cup {cat.id : cat \in Range(topLevelCategories(cats))}

\* What onChange can deliver for a form field
FieldValues(key) ==
    CASE key = "parent_id"   -> ParentOptions(categories)
      [] key = "name"        -> TypedNames
      [] key = "description" -> TypedDescriptions
      [] key = "image_url"   -> TypedImageUrls

\* onChange of one form field (the form is shown):
\* setCategoryFormData({ ...categoryFormData, [key]: e.target.value })
SetFormField ==
    \E key \in DOMAIN EmptyForm :
        \E v \in FieldValues(key) :
            /\ UserEvent
            /\ showAddCategoryForm
            /\ categoryFormData' = [categoryFormData EXCEPT ![key] = v]
            /\ Quiet
            /\ UNCHANGED <<goldVars, migVars, backendVars, listVars, showAddCategoryForm,
                           editingCategory, expandedCategories, items, tasks>>

\* Mutant of SubmitData: the form data sent as it is, without `|| null`
SubmitDataAsTyped(form) == form

\* { ...categoryFormData, parent_id: categoryFormData.parent_id || null }
SubmitData(form) == [form EXCEPT !.parent_id = OrNull(form.parent_id)]

\* The remote call handleCategorySubmit issues
SubmitOp(editing, form) ==
    IF editing # <<>>
    THEN [type |-> "update", id |-> editing[1].id, data |-> SubmitData(form)]
    ELSE [type |-> "insert", id |-> NULL, data |-> SubmitData(form)]

\* onSubmit, up to the first await (the form is shown; the name input is `required`)
HandleCategorySubmit ==
    /\ UserEvent
    /\ showAddCategoryForm
    /\ categoryFormData.name # ""
    /\ InFlight < MaxInFlight
    /\ tasks' = tasks (+) SetToBag({Task("submit", "mutate",
                          SubmitOp(editingCategory, categoryFormData), <<>>, 0)})
    /\ Quiet
    /\ UNCHANGED <<goldVars, migVars, backendVars, listVars, formVars, expandedCategories, items>>

-----------------------------------------------------------------------------
(* AdminCategoriesTab: delete *)

\* Mutant of DeleteDecision: the subcategory check is missing
DeleteDecisionWithoutSubcategoryCheck(id, categoryName, accept) ==
    LET itemCount == getItemCount(items, categoryName)
    IN  IF itemCount > 0
        THEN [dialog |-> Alert("has-items", categoryName, itemCount), call |-> FALSE]
        ELSE [dialog |-> Confirm(categoryName, accept), call |-> accept]

\* What handleDeleteCategory(id, categoryName) decides before any remote call:
\* the dialog it shows and whether it goes on to the remote delete.
DeleteDecision(id, categoryName, accept) ==
    LET itemCount == getItemCount(items, categoryName)
        subcategories == getSubcategories(categories, id)
    IN  IF itemCount > 0
        THEN [dialog |-> Alert("has-items", categoryName, itemCount), call |-> FALSE]
        ELSE IF Len(subcategories) > 0
        THEN [dialog |-> Alert("has-subcategories", categoryName, Len(subcategories)),
              call |-> FALSE]
        ELSE [dialog |-> Confirm(categoryName, accept), call |-> accept]

DeleteOp(id) == [type |-> "delete", id |-> id, data |-> EmptyForm]

\* onClick of a card's delete button, up to the first await
HandleDeleteCategory ==
    \E card \in Cards, accept \in BOOLEAN :
        LET d == DeleteDecision(card.category.id, card.category.name, accept)
        IN  /\ UserEvent
            /\ d.call => InFlight < MaxInFlight
            /\ dialog' = d.dialog
            /\ tasks' = IF d.call
                        THEN tasks (+) SetToBag({Task("delete", "mutate",
                                          DeleteOp(card.category.id), <<>>, 0)})
                        ELSE tasks
            /\ UNCHANGED <<goldVars, migVars, backendVars, listVars, formVars, expandedCategories,
                           items>>

toggleExpanded(categoryId) ==
    expandedCategories' =
        IF categoryId \in expandedCategories
        THEN expandedCategories \ {categoryId}
        ELSE expandedCategories \cup {categoryId}

\* onClick of a card's folder button (shown when the card has subcategories)
ToggleExpanded ==
    \E card \in Cards :
        /\ UserEvent
        /\ Len(getSubcategories(categories, card.category.id)) > 0
        /\ toggleExpanded(card.category.id)
        /\ Quiet
        /\ UNCHANGED <<goldVars, migVars, backendVars, listVars, formVars, items, tasks>>

-----------------------------------------------------------------------------
(* AdminCategoriesTab: the backend's answers and the handlers' continuations *)

\* The table after the backend applies a mutation
Apply(op, table) ==
    CASE op.type = "insert" ->
            LET id == CHOOSE i \in Ids \ SeedIds : \A r \in table : r.id # i
            IN  table \cup {Category(id, op.data.name, op.data.description,
                                     op.data.image_url, op.data.parent_id)}
      [] op.type = "update" ->
            {IF r.id = op.id
             THEN Category(r.id, op.data.name, op.data.description,
                           op.data.image_url, op.data.parent_id)
             ELSE r : r \in table}
      [] op.type = "delete" -> {r \in table : r.id # op.id}
      [] OTHER -> table

\* The insert/update/delete returns without error: the handler calls loadCategories
MutateOk ==
    \E t \in BagToSet(tasks) :
        /\ t.stage = "mutate"
        /\ t.op.type = "insert" => \E i \in Ids \ SeedIds : \A r \in db : r.id # i
        /\ db' = Apply(t.op, db)
        /\ dbVer' = dbVer + 1
        /\ tasks' = (tasks (-) SetToBag({t}))
                    (+) SetToBag({Task(t.kind, "select", t.op, <<>>, 0)})
        /\ Quiet
        /\ UNCHANGED <<goldVars, migVars, listVars, formVars, expandedCategories, items, nEvents>>

\* Mutant of MutateError: the catch block also resets the form
MutateErrorClosingForm ==
    \E t \in BagToSet(tasks) :
        /\ t.stage = "mutate"
        /\ dialog' = Alert(IF t.kind = "submit" THEN "save-error" ELSE "delete-error",
                           "", 0)
        /\ tasks' = tasks (-) SetToBag({t})
        /\ IF t.kind = "submit" THEN resetCategoryForm ELSE UNCHANGED formVars
        /\ UNCHANGED <<goldVars, migVars, backendVars, listVars, expandedCategories,
                       items, nEvents>>

\* The insert/update/delete returns an error (or throws): the catch block
MutateError ==
    \E t \in BagToSet(tasks) :
        /\ t.stage = "mutate"
        /\ dialog' = Alert(IF t.kind = "submit" THEN "save-error" ELSE "delete-error",
                           "", 0)
        /\ tasks' = tasks (-) SetToBag({t})
        /\ UNCHANGED <<goldVars, migVars, backendVars, listVars, formVars, expandedCategories, items,
                       nEvents>>

\* The backend runs loadCategories' select
BackendSelect ==
    \E t \in BagToSet(tasks) :
        /\ t.stage = "select"
        /\ \E data \in OrderedByName(db) :
            tasks' = (tasks (-) SetToBag({t}))
                     (+) SetToBag({Task(t.kind, "selected", t.op, data, dbVer)})
        /\ Quiet
        /\ UNCHANGED <<goldVars, migVars, backendVars, listVars, formVars, expandedCategories, items,
                       nEvents>>

\* Mutant of LoadResolve: a response older than one already applied is dropped
LoadResolveNewestOnly ==
    \E t \in BagToSet(tasks) :
        /\ t.stage = "selected"
        /\ IF t.ver >= maxVer
           THEN categories' = t.data /\ listVer' = t.ver /\ maxVer' = t.ver
           ELSE UNCHANGED listVars
        /\ tasks' = tasks (-) SetToBag({t})
        /\ IF t.kind = "submit" THEN resetCategoryForm ELSE UNCHANGED formVars
        /\ Quiet
        /\ UNCHANGED <<goldVars, migVars, backendVars, expandedCategories, items,
                       nEvents>>

\* loadCategories' continuation with `data`: setCategories(data), then the caller's
\* continuation (handleCategorySubmit goes on to resetCategoryForm)
LoadResolve ==
    \E t \in BagToSet(tasks) :
        /\ t.stage = "selected"
        /\ categories' = t.data
        /\ listVer' = t.ver
        /\ maxVer' = IF t.ver > maxVer THEN t.ver ELSE maxVer
        /\ tasks' = tasks (-) SetToBag({t})
        /\ IF t.kind = "submit" THEN resetCategoryForm ELSE UNCHANGED formVars
        /\ Quiet
        /\ UNCHANGED <<goldVars, migVars, backendVars, expandedCategories, items, nEvents>>

\* loadCategories' select fails: `data` is null or the await throws, nothing is
\* set, and the caller's continuation runs all the same. (A select changes nothing
\* in the backend, so a response lost on its way back is this step too.)
LoadError ==
    \E t \in BagToSet(tasks) :
        /\ t.stage = "select"
        /\ tasks' = tasks (-) SetToBag({t})
        /\ IF t.kind = "submit" THEN resetCategoryForm ELSE UNCHANGED formVars
        /\ Quiet
        /\ UNCHANGED <<goldVars, migVars, backendVars, listVars, expandedCategories, items, nEvents>>

NextCat ==
    \/ ShowAddForm
    \/ CancelForm
    \/ StartEdit
    \/ SetFormField
    \/ HandleCategorySubmit
    \/ HandleDeleteCategory
    \/ ToggleExpanded
    \/ MutateOk
    \/ MutateError
    \/ BackendSelect
    \/ LoadResolve
    \/ LoadError

-----------------------------------------------------------------------------
(* AdminCategoriesTab: the claims *)

\* Counted without the component's own helpers
ItemsTagged(name) == Cardinality({i \in 1..Len(items) : items[i] = name})
ChildrenOf(id) == Cardinality({i \in 1..Len(categories) : categories[i].parent_id = id})

\* This step put one more task `t` in flight / took one away
Started(t) == CopiesIn(t, tasks') > CopiesIn(t, tasks)
Ended(t) == CopiesIn(t, tasks') < CopiesIn(t, tasks)
DeleteCall(id) == Task("delete", "mutate", DeleteOp(id), <<>>, 0)
NothingSent == tasks' = tasks /\ db' = db /\ categories' = categories

\* C1: handleDeleteCategory sends the remote delete only when the category has no
\* items and no subcategories in the local state and the user accepted the
\* confirmation; with items it alerts their count, else with subcategories it
\* alerts their count; a rejected or declined delete sends nothing and leaves the
\* list alone.
C1_DeleteGuard ==
    [][ /\ \A id \in Ids :
            Started(DeleteCall(id)) =>
                /\ ChildrenOf(id) = 0
                /\ \E i \in 1..Len(categories) :
                    /\ categories[i].id = id
                    /\ ItemsTagged(categories[i].name) = 0
                    /\ dialog' = Confirm(categories[i].name, TRUE)
        /\ dialog'.kind = "has-items" =>
            /\ dialog'.count > 0
            /\ dialog'.count = ItemsTagged(dialog'.name)
            /\ NothingSent
        /\ dialog'.kind = "has-subcategories" =>
            /\ ItemsTagged(dialog'.name) = 0
            /\ dialog'.count > 0
            /\ \E i \in 1..Len(categories) :
                /\ categories[i].name = dialog'.name
                /\ dialog'.count = ChildrenOf(categories[i].id)
            /\ NothingSent
        /\ (dialog'.kind = "confirm" /\ ~dialog'.answer) => NothingSent
      ]_vars

\* C1 witness: a confirmed delete of a category with no items and no subcategories
\* has been sent
C1_Witness ==
    /\ dialog.kind = "confirm" /\ dialog.answer
    /\ \E id \in Ids : CopiesIn(DeleteCall(id), tasks) > 0

\* C1, the rejections: reachable states where each alert is up
C1_RejectedForItems == dialog = Alert("has-items", "Rings", 2)
C1_RejectedForSubcategories == dialog = Alert("has-subcategories", "Rings", 1)

\* C2: no sequence of form submissions makes the hierarchy deeper than two tiers:
\* the parent of every category that has one is itself top-level.
C2_TwoTiers ==
    \A c \in db : c.parent_id # NULL =>
        \A parent \in db : parent.id = c.parent_id => parent.parent_id = NULL

\* C4: when the insert/update succeeds the handler goes on to loadCategories with
\* the form still as it was, and closes the form when that load is over; when it
\* fails the handler alerts, starts no load, and leaves the form, the editing
\* record, the fields and the list alone.
C4_SubmitOutcome ==
    [][ \A t \in BagToSet(tasks) :
          (t.kind = "submit" /\ Ended(t)) =>
            CASE t.stage = "mutate" /\ dbVer' # dbVer ->
                    /\ Started(Task("submit", "select", t.op, <<>>, 0))
                    /\ UNCHANGED formVars
                    /\ dialog' = NoDialog
              [] t.stage = "mutate" /\ dbVer' = dbVer ->
                    /\ dialog' = Alert("save-error", "", 0)
                    /\ UNCHANGED formVars
                    /\ categories' = categories
                    /\ \A u \in BagToSet(tasks') : ~Started(u)
              [] t.stage = "select" ->
                    \/ /\ \E u \in BagToSet(tasks') : u.stage = "selected" /\ Started(u)
                       /\ UNCHANGED formVars
                    \/ /\ \A u \in BagToSet(tasks') : ~Started(u)
                       /\ ~showAddCategoryForm'
                       /\ editingCategory' = <<>>
                       /\ categoryFormData' = EmptyForm
              [] t.stage = "selected" ->
                    /\ categories' = t.data
                    /\ ~showAddCategoryForm'
                    /\ editingCategory' = <<>>
                    /\ categoryFormData' = EmptyForm
      ]_vars

\* C4 witness: a failed save, the form still open with what was entered
C4_Witness ==
    /\ dialog = Alert("save-error", "", 0)
    /\ showAddCategoryForm
    /\ categoryFormData.name # ""

\* C4, the success: a reload started by a submission has closed the form
C4_ClosedAfterReload ==
    /\ ~showAddCategoryForm
    /\ listVer > 0
    /\ \E r \in db : r.id \notin SeedIds

\* C8: a submission with parent_id "" persists NULL, never ""; any other parent_id
\* and the name, description and image_url are persisted as entered.
C8_PersistedAsEntered ==
    [][ /\ \A t \in BagToSet(tasks') :
            (t.kind = "submit" /\ t.stage = "mutate" /\ Started(t)) =>
                /\ t.op.data.parent_id =
                      (IF categoryFormData.parent_id = "" THEN NULL
                       ELSE categoryFormData.parent_id)
                /\ t.op.data.name = categoryFormData.name
                /\ t.op.data.description = categoryFormData.description
                /\ t.op.data.image_url = categoryFormData.image_url
        /\ \A t \in BagToSet(tasks) :
            (t.kind = "submit" /\ t.stage = "mutate" /\ Ended(t) /\ dbVer' # dbVer) =>
                /\ t.op.type = "insert" =>
                      \E r \in db' \ db : [r EXCEPT !.id = NULL] =
                            Category(NULL, t.op.data.name, t.op.data.description,
                                     t.op.data.image_url, t.op.data.parent_id)
                /\ t.op.type = "update" =>
                      \A r \in db' : r.id = t.op.id =>
                            r = Category(t.op.id, t.op.data.name, t.op.data.description,
                                         t.op.data.image_url, t.op.data.parent_id)
        /\ \A r \in db' : r.parent_id # ""
      ]_vars

\* C8 witness: a row inserted from a form whose parent_id was "" holds NULL
C8_Witness ==
    \E r \in db : r.id \notin SeedIds /\ r.parent_id = NULL /\ r.name = "Rings"

\* C8, a parent chosen in the form is persisted
C8_ParentPersisted == \E r \in db : r.id \notin SeedIds /\ r.parent_id = "c1"

\* C10: a load that has its response is applied whenever it resolves, whatever
\* was applied before it: the list becomes that response, also when the response
\* was read from the backend before the one the list holds.
C10_LastResolvedWins ==
    [][ \A t \in BagToSet(tasks) :
          (t.stage = "selected" /\ Ended(t)) =>
            /\ categories' = t.data
            /\ listVer' = t.ver
      ]_vars

\* C10 witness: every request is over, the list holds a response read before one
\* it held earlier, and it differs from the backend's table
C10_StaleOverwrite ==
    /\ tasks = EmptyBag
    /\ listVer < maxVer
    /\ Range(categories) # db

-----------------------------------------------------------------------------
SpecCat == InitCat /\ [][NextCat]_vars

-----------------------------------------------------------------------------
(* The rendering, on any flat list *)

\* Ids are opaque, so the row at position i of a flat list carries IdNames[i];
\* its parent_id is absent, the id of any row of the list (itself included), or
\* an id no row has.
NoSuchId == IdNames[Len(IdNames)]
ListIds(n) == {IdNames[i] : i \in 1..n}
FlatLists ==
    UNION {{[i \in 1..n |-> Category(IdNames[i], "Rings", "", "", parent[i])] :
               parent \in [1..n -> {NULL, NoSuchId} \cup ListIds(n)]} :
           n \in 0..MaxListLen}

\* The component with any list loaded and any set of cards expanded
InitRender ==
    /\ categories \in FlatLists
    /\ expandedCategories \in SUBSET ListIds(Len(categories))
    /\ db = Range(categories)
    /\ dbVer = 0
    /\ listVer = 0
    /\ maxVer = 0
    /\ showAddCategoryForm = FALSE
    /\ editingCategory = <<>>
    /\ categoryFormData = EmptyForm
    /\ items = <<>>
    /\ dialog = NoDialog
    /\ tasks = EmptyBag
    /\ nEvents = 0
    /\ goldPrice = SeedPrice /\ loading = TRUE /\ error = NULL /\ mounted = FALSE
    /\ interval = FALSE /\ fetching = 0 /\ lastFetched = SeedPrice /\ outcome = "none"
    /\ policies = {} /\ rls = [t \in Tables |-> FALSE] /\ pc = 1 /\ sqlError = ""
    /\ reruns = 0

NextRender == ToggleExpanded

SpecRender == InitRender /\ [][NextRender]_vars

Position(category) == CHOOSE i \in 1..Len(categories) : categories[i] = category

\* C3: every card rendered at the top level has no parent_id; every card rendered
\* under another is rendered once, under the card whose id is its parent_id; cards
\* under the same card (or at the top level) come in the order of the flat list.
C3_TwoTierRendering ==
    LET view == Render(categories, expandedCategories)
    IN  \A i \in 1..Len(view) :
            /\ view[i].under = NULL => view[i].category.parent_id = NULL
            /\ view[i].under # NULL =>
                /\ view[i].category.parent_id = view[i].under
                /\ \E k \in 1..(i - 1) : view[k].category.id = view[i].under
                /\ \A j \in 1..Len(view) :
                       view[j].category.id = view[i].category.id => j = i
            /\ \A j \in (i + 1)..Len(view) :
                   view[j].under = view[i].under =>
                       Position(view[i].category) < Position(view[j].category)

\* C3 witness: after a toggle, two subcategories rendered under the same
\* expanded card
C3_Witness ==
    LET view == Render(categories, expandedCategories)
    IN  nEvents > 0 /\ \E i, j \in 1..Len(view) :
            i < j /\ view[i].under # NULL /\ view[i].under = view[j].under

-----------------------------------------------------------------------------
(* useGoldPrice *)

MaxFetches == 2   \* calls of getCurrentGoldPrice in flight at once

\* What getCurrentGoldPrice can return
Prices == {5400, 5500, 5600}

FetchFailed == "Failed to fetch gold price"

\* After the first render and its effect: mounted, the first fetchGoldPrice
\* called (it is at its await), the timer armed
InitGold ==
    /\ goldPrice = SeedPrice
    /\ loading = TRUE
    /\ error = NULL
    /\ mounted = TRUE
    /\ interval = TRUE
    /\ fetching = 1
    /\ lastFetched = SeedPrice
    /\ outcome = "none"
    \* the categories tab and the migration are not running
    /\ db = {} /\ dbVer = 0 /\ categories = <<>> /\ listVer = 0 /\ maxVer = 0
    /\ showAddCategoryForm = FALSE /\ editingCategory = <<>>
    /\ categoryFormData = EmptyForm /\ expandedCategories = {} /\ items = <<>>
    /\ dialog = NoDialog /\ tasks = EmptyBag /\ nEvents = 0
    /\ policies = {} /\ rls = [t \in Tables |-> FALSE] /\ pc = 1 /\ sqlError = ""
    /\ reruns = 0

\* The timer fires: fetchGoldPrice up to its await
Tick ==
    /\ interval
    /\ fetching < MaxFetches
    /\ loading' = TRUE
    /\ error' = NULL
    /\ fetching' = fetching + 1
    /\ UNCHANGED <<catVars, migVars, goldPrice, mounted, interval, lastFetched,
                   outcome>>

\* Mutant of FetchResolve: the price is set without looking at `mounted`
FetchResolveUnguarded ==
    \E price \in Prices :
        /\ fetching > 0
        /\ fetching' = fetching - 1
        /\ lastFetched' = price
        /\ outcome' = "fulfilled"
        /\ goldPrice' = price
        /\ loading' = IF mounted THEN FALSE ELSE loading
        /\ UNCHANGED <<catVars, migVars, error, mounted, interval>>

\* getCurrentGoldPrice fulfils: `if (mounted) setGoldPrice(price)`, then finally
FetchResolve ==
    \E price \in Prices :
        /\ fetching > 0
        /\ fetching' = fetching - 1
        /\ lastFetched' = price
        /\ outcome' = "fulfilled"
        /\ goldPrice' = IF mounted THEN price ELSE goldPrice
        /\ loading' = IF mounted THEN FALSE ELSE loading
        /\ UNCHANGED <<catVars, migVars, error, mounted, interval>>

\* getCurrentGoldPrice rejects: the catch block, then finally
FetchReject ==
    /\ fetching > 0
    /\ fetching' = fetching - 1
    /\ outcome' = "rejected"
    /\ error' = IF mounted THEN FetchFailed ELSE error
    /\ loading' = IF mounted THEN FALSE ELSE loading
    /\ UNCHANGED <<catVars, migVars, goldPrice, mounted, interval, lastFetched>>

\* The effect's cleanup
Unmount ==
    /\ mounted
    /\ mounted' = FALSE
    /\ interval' = FALSE
    /\ UNCHANGED <<catVars, migVars, goldPrice, loading, error, fetching,
                   lastFetched, outcome>>

NextGold ==
    \/ Tick
    \/ FetchResolve
    \/ FetchReject
    \/ Unmount

SpecGold == InitGold /\ [][NextGold]_vars

Settled == fetching' < fetching

\* C5: while mounted, a fetch that fails leaves goldPrice at the last fetched
\* value (5450 if none) and sets the error; a fetch that succeeds leaves the error
\* null and goldPrice at the price it fetched; a failure leaves the timer armed.
C5_FetchOutcome ==
    [][ (mounted /\ Settled) =>
            /\ outcome' = "rejected" =>
                /\ goldPrice' = lastFetched
                /\ error' # NULL
                /\ interval'
            /\ outcome' = "fulfilled" =>
                /\ error' = NULL
                /\ goldPrice' = lastFetched'
      ]_vars

\* C5, without the error flag after a success: what holds of every fetch
C5_PriceAndTimer ==
    [][ (mounted /\ Settled) =>
            /\ outcome' = "rejected" =>
                /\ goldPrice' = lastFetched
                /\ error' # NULL
                /\ interval'
            /\ outcome' = "fulfilled" => goldPrice' = lastFetched'
      ]_vars

\* C6: once unmounted, the timer is off, no fetch starts, and goldPrice, loading
\* and error never change again, whatever the fetches still in flight do.
C6_NoUpdateAfterUnmount ==
    [][ /\ ~mounted' => ~interval'
        /\ ~mounted =>
            /\ ~mounted'
            /\ fetching' <= fetching
            /\ UNCHANGED <<goldPrice, loading, error>>
      ]_vars

\* C6 witness: unmounted while a fetch was in flight (loading is still true),
\* and that fetch has settled since
C6_Witness == ~mounted /\ fetching = 0 /\ loading /\ outcome # "none"

-----------------------------------------------------------------------------
(* The migration 20251030193458_fix_duplicate_policy_error.sql *)

MaxReruns == 1   \* times the finished script is run again

Policy(name, table, cmd, role) ==
    [name |-> name, table |-> table, cmd |-> cmd, role |-> role]

\* CREATE POLICY ... ON categories
CategoriesPolicies == <<
    Policy("Categories are publicly readable", "categories", "SELECT", "public"),
    Policy("Only authenticated users can insert categories", "categories", "INSERT",
           "authenticated"),
    Policy("Only authenticated users can update categories", "categories", "UPDATE",
           "authenticated"),
    Policy("Only authenticated users can delete categories", "categories", "DELETE",
           "authenticated") >>

\* CREATE POLICY ... ON jewelry_items
JewelryItemsPolicies == <<
    Policy("Jewelry items are publicly readable", "jewelry_items", "SELECT", "public"),
    Policy("Only authenticated users can insert jewelry items", "jewelry_items",
           "INSERT", "authenticated"),
    Policy("Only authenticated users can update jewelry items", "jewelry_items",
           "UPDATE", "authenticated"),
    Policy("Only authenticated users can delete jewelry items", "jewelry_items",
           "DELETE", "authenticated") >>

\* Mutant of AdminSettingsPolicies: the read policy is granted TO public
AdminSettingsPoliciesPublicRead == <<
    Policy("Authenticated users can read admin settings", "admin_settings", "SELECT",
           "public"),
    Policy("Authenticated users can update admin settings", "admin_settings",
           "UPDATE", "authenticated"),
    Policy("Authenticated users can insert admin settings", "admin_settings",
           "INSERT", "authenticated") >>

\* CREATE POLICY ... ON admin_settings
AdminSettingsPolicies == <<
    Policy("Authenticated users can read admin settings", "admin_settings", "SELECT",
           "authenticated"),
    Policy("Authenticated users can update admin settings", "admin_settings",
           "UPDATE", "authenticated"),
    Policy("Authenticated users can insert admin settings", "admin_settings",
           "INSERT", "authenticated") >>

\* Mutant of DroppedPolicies: the first DROP POLICY line is missing
DroppedPoliciesWithoutFirst == <<
    [name |-> "Jewelry items are publicly readable", table |-> "jewelry_items"],
    [name |-> "Only authenticated users can insert categories", table |-> "categories"],
    [name |-> "Only authenticated users can update categories", table |-> "categories"],
    [name |-> "Only authenticated users can delete categories", table |-> "categories"],
    [name |-> "Only authenticated users can insert jewelry items",
     table |-> "jewelry_items"],
    [name |-> "Only authenticated users can update jewelry items",
     table |-> "jewelry_items"],
    [name |-> "Only authenticated users can delete jewelry items",
     table |-> "jewelry_items"],
    [name |-> "Authenticated users can read admin settings", table |-> "admin_settings"],
    [name |-> "Authenticated users can update admin settings",
     table |-> "admin_settings"],
    [name |-> "Authenticated users can insert admin settings",
     table |-> "admin_settings"] >>

\* DROP POLICY IF EXISTS <name> ON <table>, in the script's order
DroppedPolicies == <<
    [name |-> "Categories are publicly readable", table |-> "categories"],
    [name |-> "Jewelry items are publicly readable", table |-> "jewelry_items"],
    [name |-> "Only authenticated users can insert categories", table |-> "categories"],
    [name |-> "Only authenticated users can update categories", table |-> "categories"],
    [name |-> "Only authenticated users can delete categories", table |-> "categories"],
    [name |-> "Only authenticated users can insert jewelry items",
     table |-> "jewelry_items"],
    [name |-> "Only authenticated users can update jewelry items",
     table |-> "jewelry_items"],
    [name |-> "Only authenticated users can delete jewelry items",
     table |-> "jewelry_items"],
    [name |-> "Authenticated users can read admin settings", table |-> "admin_settings"],
    [name |-> "Authenticated users can update admin settings",
     table |-> "admin_settings"],
    [name |-> "Authenticated users can insert admin settings",
     table |-> "admin_settings"] >>

\* ALTER TABLE <table> ENABLE ROW LEVEL SECURITY, in the script's order
RlsEnabledTables == <<"categories", "jewelry_items", "admin_settings">>

CreatedPolicies == CategoriesPolicies \o JewelryItemsPolicies \o AdminSettingsPolicies

Statement(kind, policy, table) == [kind |-> kind, policy |-> policy, table |-> table]

\* The script, statement by statement
Script ==
    [i \in 1..Len(DroppedPolicies) |->
        Statement("drop", Policy(DroppedPolicies[i].name, DroppedPolicies[i].table,
                                 "", ""), DroppedPolicies[i].table)]
    \o [i \in 1..Len(RlsEnabledTables) |->
        Statement("enable", Policy("", "", "", ""), RlsEnabledTables[i])]
    \o [i \in 1..Len(CreatedPolicies) |->
        Statement("create", CreatedPolicies[i], CreatedPolicies[i].table)]

Done == Len(Script) + 1

\* A policy of one of the script's names as an earlier migration may have left
\* it: of that name on that table, but FOR ALL TO public
Legacy(policy) == Policy(policy.name, policy.table, "ALL", "public")

\* The database before the script: any of the 11 named policies may exist, and
\* row level security may be on or off on each table
InitMig ==
    /\ \E existing \in SUBSET Range(CreatedPolicies) :
           policies = {Legacy(policy) : policy \in existing}
    /\ rls \in [Tables -> BOOLEAN]
    /\ pc = 1
    /\ sqlError = ""
    /\ reruns = 0
    \* the categories tab and the poller are not running
    /\ db = {} /\ dbVer = 0 /\ categories = <<>> /\ listVer = 0 /\ maxVer = 0
    /\ showAddCategoryForm = FALSE /\ editingCategory = <<>>
    /\ categoryFormData = EmptyForm /\ expandedCategories = {} /\ items = <<>>
    /\ dialog = NoDialog /\ tasks = EmptyBag /\ nEvents = 0
    /\ goldPrice = SeedPrice /\ loading = TRUE /\ error = NULL /\ mounted = FALSE
    /\ interval = FALSE /\ fetching = 0 /\ lastFetched = SeedPrice /\ outcome = "none"

Running == sqlError = "" /\ pc < Done

\* DROP POLICY IF EXISTS name ON table
DropPolicyIfExists ==
    /\ Running
    /\ Script[pc].kind = "drop"
    /\ policies' = {p \in policies : ~(p.name = Script[pc].policy.name
                                        /\ p.table = Script[pc].table)}
    /\ pc' = pc + 1
    /\ UNCHANGED <<catVars, goldVars, rls, sqlError, reruns>>

\* ALTER TABLE table ENABLE ROW LEVEL SECURITY
EnableRowLevelSecurity ==
    /\ Running
    /\ Script[pc].kind = "enable"
    /\ rls' = [rls EXCEPT ![Script[pc].table] = TRUE]
    /\ pc' = pc + 1
    /\ UNCHANGED <<catVars, goldVars, policies, sqlError, reruns>>

\* CREATE POLICY name ON table FOR cmd TO role: a policy of that name on that
\* table makes it fail with duplicate_object, which aborts the script
CreatePolicy ==
    /\ Running
    /\ Script[pc].kind = "create"
    /\ IF \E p \in policies : p.name = Script[pc].policy.name
                              /\ p.table = Script[pc].table
       THEN /\ sqlError' = "duplicate_object"
            /\ UNCHANGED <<policies, pc>>
       ELSE /\ policies' = policies \cup {Script[pc].policy}
            /\ pc' = pc + 1
            /\ UNCHANGED sqlError
    /\ UNCHANGED <<catVars, goldVars, rls, reruns>>

\* The finished script is run again
RunAgain ==
    /\ sqlError = ""
    /\ pc = Done
    /\ reruns < MaxReruns
    /\ pc' = 1
    /\ reruns' = reruns + 1
    /\ UNCHANGED <<catVars, goldVars, policies, rls, sqlError>>

NextMig ==
    \/ DropPolicyIfExists
    \/ EnableRowLevelSecurity
    \/ CreatePolicy
    \/ RunAgain

SpecMig == InitMig /\ [][NextMig]_vars

Roles == {"anon", "authenticated"}

\* Row level security lets `role` run `cmd` on `table`: the table has it off, or
\* a policy for that command (or ALL) is granted to the role or to public
Permits(role, table, cmd) ==
    rls[table] =>
        \E p \in policies :
            /\ p.table = table
            /\ p.cmd \in {cmd, "ALL"}
            /\ p.role \in {role, "public"}

\* C7: once the script has run, anyone may read categories and jewelry_items,
\* only authenticated callers may insert, update or delete there, admin_settings
\* is read, inserted and updated by authenticated callers only, and no policy
\* lets any role delete from admin_settings.
C7_AccessRules ==
    pc = Done =>
        /\ \A table \in {"categories", "jewelry_items"} :
            /\ \A role \in Roles : Permits(role, table, "SELECT")
            /\ \A cmd \in {"INSERT", "UPDATE", "DELETE"} :
                /\ Permits("authenticated", table, cmd)
                /\ ~Permits("anon", table, cmd)
        /\ \A cmd \in {"SELECT", "INSERT", "UPDATE"} :
            /\ Permits("authenticated", "admin_settings", cmd)
            /\ ~Permits("anon", "admin_settings", cmd)
        /\ \A role \in Roles : ~Permits(role, "admin_settings", "DELETE")
        /\ ~\E p \in policies :
               p.table = "admin_settings" /\ p.cmd \in {"DELETE", "ALL"}

\* C7 witness: the first run of the script has reached its end
C7_Witness == pc = Done /\ reruns = 0 /\ sqlError = "" /\ policies # {}

\* C9: from any subset of the 11 named policies the script never fails with a
\* duplicate policy, ends with exactly its 11 policies and row level security on
\* for the three tables, and a second run ends in the same state.
C9_Idempotent ==
    /\ sqlError = ""
    /\ pc = Done =>
        /\ policies = Range(CreatedPolicies)
        /\ Cardinality(policies) = 11
        /\ \A table \in Tables : rls[table]

\* C9 witness: a second run has finished
C9_Witness == pc = Done /\ reruns = 1 /\ sqlError = ""

====
